---- MODULE Spec2Model ----
(***************************************************************************)
(* Job_tracker: one-way synchronisation of job postings (Greenhouse board) *)
(* into a Notion database.                                                 *)
(*   src/sync_jobs.py          main, get_jobs_from_greenhouse,             *)
(*                             get_existing_jobs_from_notion,              *)
(*                             create_job_page, update_job_page,           *)
(*                             mark_removed_jobs                           *)
(*   src/curl_notion_client.py CurlNotionClient._curl_request and the      *)
(*                             request wrappers built on it                *)
(*                                                                         *)
(* Text is modelled as a sequence of character codes (ord), so that        *)
(* clean_text is computed as the code computes it.  The destination store  *)
(* is the sequence of its pages in creation order; a page id is the index  *)
(* of the page.  The page properties kept are those the program reads back *)
(* or writes after creation: REQ ID, title, last_edited_time and the       *)
(* remark ("note") that mark_removed_jobs writes; and the application      *)
(* status, which the program sets at creation and the user edits by hand.  *)
(***************************************************************************)
EXTENDS Integers, Sequences, FiniteSets, TLC

VARIABLES
    store,      \* destination database: sequence of pages
    cfg,        \* environment of the run: NOTION_API_KEY / NOTION_DATABASE_ID
    pc,         \* position of main
    ret,        \* return value of main (NotReturned while it runs)
    listed,     \* REQ IDs of the target-location postings in the board listing
    jobs,       \* result of get_jobs_from_greenhouse
    existing,   \* result of get_existing_jobs_from_notion (ordered dict)
    snap,       \* how `existing` was obtained: "none", "page", "noresults", "failed"
    idx,        \* 1-based position of `for job in jobs`
    mIdx,       \* 1-based position of `for req_id, data in existing_jobs.items()`
    attempt,    \* `attempt` of the retry loop of the sync_jobs function in progress
    curl,       \* the _curl_request call in progress
    decided,    \* decided[i]: branch main took for jobs[i]
    sent,       \* requests sent to the destination in this run: <<op, target>>
    failed,     \* operations of this run that failed after all retries
    clean,      \* no request of this run has failed so far
    opSends,    \* requests sent so far by the operation in progress
    runs        \* number of runs of main started

vars == <<store, cfg, pc, ret, listed, jobs, existing, snap, idx, mIdx, attempt,
          curl, decided, sent, failed, clean, opSends, runs>>

mainVars == <<cfg, pc, ret, listed, jobs, existing, snap, idx, mIdx, attempt,
              decided, failed, runs>>

----------------------------------------------------------------------------
(* Bounds of the model *)

MaxJobs == 2        \* longest source listing explored
MaxStore == 3       \* the store accepts no page beyond this many
MaxRuns == 2        \* runs of main per behaviour
MaxN == 6           \* largest max_retries explored for a lone _curl_request
PageSize == 2       \* pages returned by one database query (100 at Notion)

(* Program constants *)

NotReturned == 0 - 1    \* main has not returned

MAX_RETRIES == 3
DefaultMaxRetries == 5
FieldMaxLen == 100

----------------------------------------------------------------------------
(* Text *)

Min(a, b) == IF a < b THEN a ELSE b

Keep(c) == c >= 32 \/ c \in {10, 13, 9}

clean_text(text, max_len) ==
    IF text = <<>> THEN <<>>
    ELSE LET t == SelectSeq(text, Keep)
         IN  IF max_len # 0 THEN SubSeq(t, 1, Min(Len(t), max_len)) ELSE t

K1 == <<49>>
K2 == <<50>>
K3 == <<51>>
NoKey == <<>>
TitleA == <<97>>
TitleBCtl == <<98, 7>>

\* Timestamps are compared for equality only.  Times are the values a job's
\* updated_at takes; Now is the last_edited_time the store gives a page it
\* writes during a run, so that it can equal a job's updated_at or differ.
Now == "t1"
Times == {"t0", "t1"}

----------------------------------------------------------------------------
(* The destination store (Notion database), as the program observes it *)

Page(key, title, edited, note, status) ==
    [key |-> key, title |-> title, edited |-> edited, note |-> note,
     status |-> status]

Request(op, page, key, title) ==
    [op |-> op, page |-> page, key |-> key, title |-> title]

NoRequest == Request("none", 0, <<>>, <<>>)

\* Effect on the store of a request it has processed.
Apply(req, s) ==
    CASE req.op = "create" ->
            Append(s, Page(req.key, req.title, Now, "none", "todo"))
      [] req.op = "patch" ->
            [s EXCEPT ![req.page].note = "stale", ![req.page].edited = Now]
      [] OTHER -> s

\* Body of the answer to POST /databases/{id}/query with no cursor: the
\* first PageSize pages, here in creation order.
QueryPage(s) == SubSeq(s, 1, Min(Len(s), PageSize))

----------------------------------------------------------------------------
(* CurlNotionClient._curl_request *)

\* What one run of the curl subprocess can end in.  `processed` tells whether
\* the store carried the request out; the client cannot observe it.  Bodies:
\* "object" is JSON that is no error object, "error" an error object of a
\* passing condition (rate limit, server fault), "validation_error" an error
\* object of a permanent one, "badjson" text json.loads rejects.
Outcomes ==
    {[kind |-> k, processed |-> p, http2xx |-> FALSE, body |-> "none"] :
        k \in {"timeout", "exit"}, p \in BOOLEAN}
    \cup {[kind |-> "reply", processed |-> TRUE, http2xx |-> TRUE, body |-> b] :
        b \in {"object", "badjson"}}
    \cup {[kind |-> "reply", processed |-> FALSE, http2xx |-> FALSE, body |-> b] :
        b \in {"error", "validation_error", "badjson", "object"}}

NoOutcome == [kind |-> "none", processed |-> FALSE, http2xx |-> FALSE, body |-> "none"]

NewCall(req, n) ==
    [status |-> "Pending", req |-> req, N |-> n, attempt |-> 0, sends |-> 0,
     fails |-> 0, out |-> NoOutcome, err |-> "none", slept |-> 0, wait |-> 0,
     permanent |-> FALSE]

Idle == [NewCall(NoRequest, 0) EXCEPT !.status = "Idle"]

\* returncode == 0, json.loads succeeds, and the object is not an error object
Success(o) == o.kind = "reply" /\ o.body = "object"

\* the answer is an error object that names a permanent condition
Permanent(o) == o.kind = "reply" /\ o.body = "validation_error"

ErrOf(o) ==
    CASE o.kind = "timeout" -> "timeout"
      [] o.kind = "exit" -> "curl"
      [] o.body = "badjson" -> "json"
      [] OTHER -> "api"

wait_time(a) == 2 ^ a

\* The loop body up to and including subprocess.run: the back-off sleep of
\* a retry, then one request on the wire.  A store that already holds
\* MaxStore pages carries out no further create.
Send(o) ==
    /\ curl.status \in {"Pending", "Retrying"}
    /\ curl.attempt < curl.N
    /\ (o.processed /\ curl.req.op = "create") => Len(store) < MaxStore
    /\ store' = IF o.processed THEN Apply(curl.req, store) ELSE store
    /\ sent' = sent \cup {curl.req}
    /\ clean' = (clean /\ Success(o))
    /\ opSends' = opSends + 1

\* lines 33-36: the sleep that precedes the request of this attempt
Wait == IF curl.attempt > 0 THEN wait_time(curl.attempt) ELSE 0

\* Mutant of Slept: the loop never sleeps.
Slept_NoBackoff == curl.slept

\* total time slept by the call, this attempt's wait included
Slept == curl.slept + Wait

\* lines 85-95: the attempt's answer is returned
CurlSucceed(o) ==
    /\ Send(o)
    /\ Success(o)
    /\ curl' = [curl EXCEPT !.status = "Succeeded",
                            !.sends = @ + 1,
                            !.slept = Slept,
                            !.wait = Wait,
                            !.out = o]
    /\ UNCHANGED mainVars

\* lines 103-110: the attempt failed and is not the last one
CurlRetry(o) ==
    /\ Send(o)
    /\ ~Success(o)
    /\ curl.attempt < curl.N - 1
    /\ curl' = [curl EXCEPT !.status = "Retrying",
                            !.attempt = @ + 1,
                            !.sends = @ + 1,
                            !.fails = @ + 1,
                            !.slept = Slept,
                            !.wait = Wait,
                            !.permanent = Permanent(o)]
    /\ UNCHANGED mainVars

\* Mutant of CurlExhaust: the loop gives up one attempt early.
CurlExhaust_Early(o) ==
    /\ Send(o)
    /\ ~Success(o)
    /\ ~(curl.attempt < curl.N - 2)
    /\ curl' = [curl EXCEPT !.status = "Exhausted",
                            !.sends = @ + 1,
                            !.fails = @ + 1,
                            !.slept = Slept,
                            !.wait = Wait,
                            !.out = o,
                            !.permanent = Permanent(o),
                            !.err = ErrOf(o)]
    /\ UNCHANGED mainVars

\* Mutant of CurlExhaust: the except clauses of the last attempt only print,
\* so the loop ends and the raise of line 114 replaces the attempt's exception.
CurlExhaust_Swallow(o) ==
    /\ Send(o)
    /\ ~Success(o)
    /\ ~(curl.attempt < curl.N - 1)
    /\ curl' = [curl EXCEPT !.status = "Exhausted",
                            !.sends = @ + 1,
                            !.fails = @ + 1,
                            !.slept = Slept,
                            !.wait = Wait,
                            !.out = o,
                            !.permanent = Permanent(o),
                            !.err = "allfailed"]
    /\ UNCHANGED mainVars

\* lines 103-112: the last attempt failed, its exception leaves the function
CurlExhaust(o) ==
    /\ Send(o)
    /\ ~Success(o)
    /\ ~(curl.attempt < curl.N - 1)
    /\ curl' = [curl EXCEPT !.status = "Exhausted",
                            !.sends = @ + 1,
                            !.fails = @ + 1,
                            !.slept = Slept,
                            !.wait = Wait,
                            !.out = o,
                            !.permanent = Permanent(o),
                            !.err = ErrOf(o)]
    /\ UNCHANGED mainVars

\* line 114: range(max_retries) is empty, the raise after the loop
CurlLoopEnd ==
    /\ curl.status = "Pending"
    /\ ~(curl.attempt < curl.N)
    /\ curl' = [curl EXCEPT !.status = "Exhausted", !.err = "allfailed"]
    /\ UNCHANGED <<store, sent, clean, opSends, mainVars>>

----------------------------------------------------------------------------
(* sync_jobs.py *)

\* A job as get_jobs_from_greenhouse returns it.  location, department,
\* apply_url and experience are written to the new page by create_job_page and
\* never read back by the program; they are left out.
Job(id, title, updated_at) == [id |-> id, title |-> title, updated_at |-> updated_at]

\* Source records explored: K1 with a clean title and either timestamp, K3
\* with a title that holds a control character.
JobPool ==
    {Job(K1, TitleA, u) : u \in Times} \cup {Job(K3, TitleBCtl, Now)}

SeqsUpTo(S, n) == UNION {[1..m -> S] : m \in 0..n}

RECURSIVE Pick(_, _, _)
Pick(L, ok, i) ==
    IF i > Len(L) THEN <<>>
    ELSE (IF i \in ok THEN <<L[i]>> ELSE <<>>) \o Pick(L, ok, i + 1)

\* ordered dict: assignment to a present key keeps its position
DictPut(d, e) ==
    IF \E i \in 1..Len(d) : d[i].key = e.key
    THEN [i \in 1..Len(d) |-> IF d[i].key = e.key THEN e ELSE d[i]]
    ELSE Append(d, e)

\* Mutant of ParseFrom: the `if req_id` test is missing, so a page with an
\* empty REQ ID is entered under the empty key.
RECURSIVE ParseFrom_NoKeyTest(_, _, _)
ParseFrom_NoKeyTest(results, i, d) ==
    IF i > Len(results) THEN d
    ELSE ParseFrom_NoKeyTest(results, i + 1,
            DictPut(d, [key |-> results[i].key, page_id |-> i,
                        title |-> results[i].title,
                        updated_at |-> results[i].edited]))

RECURSIVE ParseFrom(_, _, _)
ParseFrom(results, i, d) ==
    IF i > Len(results) THEN d
    ELSE ParseFrom(results, i + 1,
            IF results[i].key # <<>>
            THEN DictPut(d, [key |-> results[i].key, page_id |-> i,
                             title |-> results[i].title,
                             updated_at |-> results[i].edited])
            ELSE d)

\* the loop over results.get("results", []) of get_existing_jobs_from_notion
ParseResults(results) == ParseFrom(results, 1, <<>>)

DictKeys(d) == {d[i].key : i \in 1..Len(d)}
DictGet(d, k) == d[CHOOSE i \in 1..Len(d) : d[i].key = k]

\* the branch main takes for one job against the snapshot
Decision(job, d) ==
    IF job.id \in DictKeys(d)
    THEN IF job.title # DictGet(d, job.id).title
            \/ job.updated_at # DictGet(d, job.id).updated_at
         THEN "update" ELSE "skip"
    ELSE "create"

\* the request pages_create sends for a job
CreateRequest(job) ==
    Request("create", 0, clean_text(job.id, FieldMaxLen),
            clean_text(job.title, FieldMaxLen))

QueryRequest == Request("query", 0, <<>>, <<>>)

\* Mutant of StaleRequest: the request names the first page of the database.
StaleRequest_FirstPage(e) == Request("patch", 1, e.key, <<>>)

\* the request pages_update sends from mark_removed_jobs
StaleRequest(e) == Request("patch", e.page_id, e.key, <<>>)

\* current_req_ids after the loop over jobs has handled jobs[1..n]
current_req_ids(n) == {jobs[i].id : i \in 1..n}

Writes == {r \in sent : r.op \in {"create", "patch"}}

\* Stores a behaviour starts from: no two pages carry the same REQ ID; one
\* page has none.  The user has set the status of each page by hand.
Catalog ==
    <<Page(NoKey, TitleA, "t0", "none", "applied"),
      Page(K1, TitleA, "t0", "none", "applied"),
      Page(K2, TitleA, "t0", "none", "applied")>>

InitStores ==
    {SubSeq(Catalog, a, b) : a \in 1..Len(Catalog), b \in 0..Len(Catalog)} \ {Catalog}

Configs == {"ok", "no_api_key", "no_database_id", "bytes_api_key"}

RunStart(c) ==
    /\ cfg' = c
    /\ pc' = "start"
    /\ ret' = NotReturned
    /\ listed' = {}
    /\ jobs' = <<>>
    /\ existing' = <<>>
    /\ snap' = "none"
    /\ idx' = 0
    /\ mIdx' = 0
    /\ attempt' = 0
    /\ decided' = <<>>
    /\ sent' = {}
    /\ failed' = {}
    /\ clean' = TRUE
    /\ opSends' = 0
    /\ curl' = Idle

Init ==
    /\ store \in InitStores
    /\ cfg \in Configs
    /\ pc = "start"
    /\ ret = NotReturned
    /\ listed = {}
    /\ jobs = <<>>
    /\ existing = <<>>
    /\ snap = "none"
    /\ idx = 0
    /\ mIdx = 0
    /\ attempt = 0
    /\ decided = <<>>
    /\ sent = {}
    /\ failed = {}
    /\ clean = TRUE
    /\ opSends = 0
    /\ curl = Idle
    /\ runs = 1

runVars == <<cfg, listed, jobs, existing, snap, idx, mIdx, attempt, decided, failed, runs>>

\* Mutant of CheckConfig: the bytes-literal check of the API key is missing.
CheckConfig_NoBytesCheck ==
    /\ pc = "start"
    /\ IF cfg \in {"ok", "bytes_api_key"}
       THEN pc' = "fetch" /\ ret' = ret
       ELSE pc' = "done" /\ ret' = 1
    /\ UNCHANGED <<store, curl, sent, clean, opSends, runVars>>

\* main, lines 363-388: the environment checks.  A key of unusual prefix
\* only prints a warning ("ok" here); the CurlNotionClient constructor stores
\* its argument and cannot raise.
CheckConfig ==
    /\ pc = "start"
    /\ IF cfg = "ok"
       THEN pc' = "fetch" /\ ret' = ret
       ELSE pc' = "done" /\ ret' = 1
    /\ UNCHANGED <<store, curl, sent, clean, opSends, runVars>>

\* main, lines 390-397: get_jobs_from_greenhouse, then the first attempt of
\* get_existing_jobs_from_notion
GetJobs ==
    /\ pc = "fetch"
    /\ \E L \in SeqsUpTo(JobPool, MaxJobs), listOk \in BOOLEAN :
        \E ok \in SUBSET (1..Len(L)) :
            /\ jobs' = IF listOk THEN Pick(L, ok, 1) ELSE <<>>
            /\ listed' = IF listOk THEN {L[i].id : i \in 1..Len(L)} ELSE {}
    /\ IF jobs' = <<>>
       THEN pc' = "done" /\ ret' = 1 /\ curl' = curl
       ELSE pc' = "snap" /\ ret' = ret /\ curl' = NewCall(QueryRequest, DefaultMaxRetries)
    /\ attempt' = 0
    /\ UNCHANGED <<store, cfg, existing, snap, idx, mIdx, decided, sent, clean,
                   opSends, failed, runs>>

\* get_existing_jobs_from_notion: databases_query returned
SnapOk ==
    /\ pc = "snap"
    /\ curl.status = "Succeeded"
    /\ existing' = ParseResults(IF curl.out.http2xx THEN QueryPage(store) ELSE <<>>)
    /\ snap' = IF curl.out.http2xx THEN "page" ELSE "noresults"
    /\ pc' = "sync"
    /\ idx' = 1
    /\ curl' = Idle
    /\ opSends' = 0
    /\ UNCHANGED <<store, cfg, ret, listed, jobs, mIdx, attempt, decided, sent, clean,
                   failed, runs>>

\* get_existing_jobs_from_notion: databases_query raised, attempts left
SnapRetry ==
    /\ pc = "snap"
    /\ curl.status = "Exhausted"
    /\ attempt < MAX_RETRIES - 1
    /\ attempt' = attempt + 1
    /\ curl' = NewCall(QueryRequest, DefaultMaxRetries)
    /\ UNCHANGED <<store, cfg, pc, ret, listed, jobs, existing, snap, idx, mIdx,
                   decided, sent, clean, opSends, failed, runs>>

\* get_existing_jobs_from_notion: databases_query raised on the last attempt
SnapGiveUp ==
    /\ pc = "snap"
    /\ curl.status = "Exhausted"
    /\ ~(attempt < MAX_RETRIES - 1)
    /\ existing' = <<>>
    /\ snap' = "failed"
    /\ pc' = "sync"
    /\ idx' = 1
    /\ curl' = Idle
    /\ opSends' = 0
    /\ UNCHANGED <<store, cfg, ret, listed, jobs, mIdx, attempt, decided, sent, clean,
                   failed, runs>>

\* main, lines 405-422: a job whose REQ ID is not in the snapshot;
\* create_job_page builds the properties and makes its first attempt
DecideCreate ==
    /\ pc = "sync"
    /\ idx <= Len(jobs)
    /\ Decision(jobs[idx], existing) = "create"
    /\ decided' = Append(decided, "create")
    /\ pc' = "create"
    /\ attempt' = 0
    /\ curl' = NewCall(CreateRequest(jobs[idx]), DefaultMaxRetries)
    /\ UNCHANGED <<store, cfg, ret, listed, jobs, existing, snap, idx, mIdx, sent,
                   clean, opSends,
                   failed, runs>>

\* Mutant of DecideUpdate: update_job_page writes the properties of a new
\* page again, so the status goes back to its initial value and the remark
\* is emptied.
DecideUpdate_Rewrite ==
    /\ pc = "sync"
    /\ idx <= Len(jobs)
    /\ Decision(jobs[idx], existing) = "update"
    /\ decided' = Append(decided, "update")
    /\ idx' = idx + 1
    /\ store' = [store EXCEPT ![DictGet(existing, jobs[idx].id).page_id].status = "todo",
                              ![DictGet(existing, jobs[idx].id).page_id].note = "none"]
    /\ UNCHANGED <<cfg, pc, ret, listed, jobs, existing, snap, mIdx, attempt,
                   curl, sent, clean, opSends, failed, runs>>

\* main, lines 409-417, and update_job_page: `properties` is empty, so no
\* request is made and the function returns on its first attempt
DecideUpdate ==
    /\ pc = "sync"
    /\ idx <= Len(jobs)
    /\ Decision(jobs[idx], existing) = "update"
    /\ decided' = Append(decided, "update")
    /\ idx' = idx + 1
    /\ UNCHANGED <<store, cfg, pc, ret, listed, jobs, existing, snap, mIdx, attempt,
                   curl, sent, clean, opSends, failed, runs>>

\* main, lines 418-419
DecideSkip ==
    /\ pc = "sync"
    /\ idx <= Len(jobs)
    /\ Decision(jobs[idx], existing) = "skip"
    /\ decided' = Append(decided, "skip")
    /\ idx' = idx + 1
    /\ UNCHANGED <<store, cfg, pc, ret, listed, jobs, existing, snap, mIdx, attempt,
                   curl, sent, clean, opSends, failed, runs>>

\* Mutant of CreateOk: main enters the page it has created into
\* existing_jobs.
CreateOk_IntoSnapshot ==
    /\ pc = "create"
    /\ curl.status = "Succeeded"
    /\ pc' = "sync"
    /\ idx' = idx + 1
    /\ curl' = Idle
    /\ opSends' = 0
    /\ existing' = DictPut(existing, [key |-> jobs[idx].id, page_id |-> Len(store),
                                      title |-> jobs[idx].title,
                                      updated_at |-> jobs[idx].updated_at])
    /\ UNCHANGED <<store, cfg, ret, listed, jobs, snap, mIdx, attempt,
                   decided, sent, clean, failed, runs>>

\* create_job_page: pages_create returned
CreateOk ==
    /\ pc = "create"
    /\ curl.status = "Succeeded"
    /\ pc' = "sync"
    /\ idx' = idx + 1
    /\ curl' = Idle
    /\ opSends' = 0
    /\ UNCHANGED <<store, cfg, ret, listed, jobs, existing, snap, mIdx, attempt,
                   decided, sent, clean, failed, runs>>

\* create_job_page: pages_create raised, attempts left
CreateRetry ==
    /\ pc = "create"
    /\ curl.status = "Exhausted"
    /\ attempt < MAX_RETRIES - 1
    /\ attempt' = attempt + 1
    /\ curl' = NewCall(curl.req, DefaultMaxRetries)
    /\ UNCHANGED <<store, cfg, pc, ret, listed, jobs, existing, snap, idx, mIdx,
                   decided, sent, clean, opSends, failed, runs>>

\* Mutant of CreateFail: the exception of the last attempt is re-raised and
\* ends main.
CreateFail_Abort ==
    /\ pc = "create"
    /\ curl.status = "Exhausted"
    /\ ~(attempt < MAX_RETRIES - 1)
    /\ failed' = failed \cup {curl.req}
    /\ pc' = "done"
    /\ ret' = 1
    /\ curl' = Idle
    /\ opSends' = 0
    /\ UNCHANGED <<store, cfg, listed, jobs, existing, snap, idx, mIdx, attempt,
                   decided, sent, clean, runs>>

\* create_job_page: pages_create raised on the last attempt; returns None
CreateFail ==
    /\ pc = "create"
    /\ curl.status = "Exhausted"
    /\ ~(attempt < MAX_RETRIES - 1)
    /\ failed' = failed \cup {curl.req}
    /\ pc' = "sync"
    /\ idx' = idx + 1
    /\ curl' = Idle
    /\ opSends' = 0
    /\ UNCHANGED <<store, cfg, ret, listed, jobs, existing, snap, mIdx, attempt,
                   decided, sent, clean, runs>>

\* main, line 425: the loop over jobs is over, mark_removed_jobs starts
SyncEnd ==
    /\ pc = "sync"
    /\ idx > Len(jobs)
    /\ pc' = "mark"
    /\ mIdx' = 1
    /\ UNCHANGED <<store, cfg, ret, listed, jobs, existing, snap, idx, attempt, curl,
                   decided, sent, clean, opSends, failed, runs>>

\* mark_removed_jobs: req_id is in current_job_ids
MarkKeep ==
    /\ pc = "mark"
    /\ mIdx <= Len(existing)
    /\ existing[mIdx].key \in current_req_ids(Len(jobs))
    /\ mIdx' = mIdx + 1
    /\ UNCHANGED <<store, cfg, pc, ret, listed, jobs, existing, snap, idx, attempt,
                   curl, decided, sent, clean, opSends, failed, runs>>

\* mark_removed_jobs: req_id is not in current_job_ids, pages_update is called
MarkCall ==
    /\ pc = "mark"
    /\ mIdx <= Len(existing)
    /\ existing[mIdx].key \notin current_req_ids(Len(jobs))
    /\ pc' = "marking"
    /\ curl' = NewCall(StaleRequest(existing[mIdx]), DefaultMaxRetries)
    /\ UNCHANGED <<store, cfg, ret, listed, jobs, existing, snap, idx, mIdx, attempt,
                   decided, sent, clean, opSends, failed, runs>>

\* mark_removed_jobs: pages_update returned
MarkOk ==
    /\ pc = "marking"
    /\ curl.status = "Succeeded"
    /\ pc' = "mark"
    /\ mIdx' = mIdx + 1
    /\ curl' = Idle
    /\ opSends' = 0
    /\ UNCHANGED <<store, cfg, ret, listed, jobs, existing, snap, idx, attempt,
                   decided, sent, clean, failed, runs>>

\* Mutant of MarkFail: the try statement encloses the whole loop, so the
\* first failure ends mark_removed_jobs.
MarkFail_Abort ==
    /\ pc = "marking"
    /\ curl.status = "Exhausted"
    /\ failed' = failed \cup {curl.req}
    /\ pc' = "mark"
    /\ mIdx' = Len(existing) + 1
    /\ curl' = Idle
    /\ opSends' = 0
    /\ UNCHANGED <<store, cfg, ret, listed, jobs, existing, snap, idx, attempt,
                   decided, sent, clean, runs>>

\* mark_removed_jobs: pages_update raised; the except clause prints and the
\* loop goes on
MarkFail ==
    /\ pc = "marking"
    /\ curl.status = "Exhausted"
    /\ failed' = failed \cup {curl.req}
    /\ pc' = "mark"
    /\ mIdx' = mIdx + 1
    /\ curl' = Idle
    /\ opSends' = 0
    /\ UNCHANGED <<store, cfg, ret, listed, jobs, existing, snap, idx, attempt,
                   decided, sent, clean, runs>>

\* main, lines 427-431
Finish ==
    /\ pc = "mark"
    /\ mIdx > Len(existing)
    /\ pc' = "done"
    /\ ret' = 0
    /\ UNCHANGED <<store, cfg, listed, jobs, existing, snap, idx, mIdx, attempt,
                   curl, decided, sent, clean, opSends, failed, runs>>

\* the scheduler starts main again
NewRun ==
    /\ pc = "done"
    /\ runs < MaxRuns
    /\ runs' = runs + 1
    /\ \E c \in Configs : RunStart(c)
    /\ UNCHANGED store

CurlNext ==
    \/ \E o \in Outcomes : CurlSucceed(o)
    \/ \E o \in Outcomes : CurlRetry(o)
    \/ \E o \in Outcomes : CurlExhaust(o)

Next ==
    \/ CheckConfig
    \/ GetJobs
    \/ SnapOk
    \/ SnapRetry
    \/ SnapGiveUp
    \/ DecideCreate
    \/ DecideUpdate
    \/ DecideSkip
    \/ CreateOk
    \/ CreateRetry
    \/ CreateFail
    \/ SyncEnd
    \/ MarkKeep
    \/ MarkCall
    \/ MarkOk
    \/ MarkFail
    \/ Finish
    \/ NewRun
    \/ CurlNext

Spec == Init /\ [][Next]_vars

----------------------------------------------------------------------------
(* One call of _curl_request on its own, for any max_retries *)

InitCurl ==
    /\ store \in {s \in InitStores : Len(s) > 0}
    /\ \E n \in 0..MaxN :
       \E req \in {QueryRequest, Request("patch", 1, <<>>, <<>>)}
                    \cup {CreateRequest(j) : j \in JobPool} :
            curl = NewCall(req, n)
    /\ cfg = "ok"
    /\ pc = "curl"
    /\ ret = NotReturned
    /\ listed = {}
    /\ jobs = <<>>
    /\ existing = <<>>
    /\ snap = "none"
    /\ idx = 0
    /\ mIdx = 0
    /\ attempt = 0
    /\ decided = <<>>
    /\ sent = {}
    /\ failed = {}
    /\ clean = TRUE
    /\ opSends = 0
    /\ runs = 1

NextCurl ==
    \/ CurlNext
    \/ CurlLoopEnd

SpecCurl == InitCurl /\ [][NextCurl]_vars

\* the call runs in one thread and every sleep and subprocess is bounded
\* (timeout=65), so an enabled step is eventually taken
FairSpecCurl == SpecCurl /\ WF_vars(NextCurl)

----------------------------------------------------------------------------
(* Properties *)

JobKeys == {jobs[i].id : i \in 1..Len(jobs)}

HasDuplicateKeys(js) == \E i, j \in 1..Len(js) : i # j /\ js[i].id = js[j].id

\* the stale keys of the run: in the snapshot and not among the source keys
StaleEntries == {i \in 1..Len(existing) : existing[i].key \notin JobKeys}

\* outcomes main has given to the source records that carry key k
OutcomesOf(k) == {decided[i] : i \in {n \in 1..Len(decided) : jobs[n].id = k}}

StaleMarkedKeys == {r.key : r \in {q \in sent : q.op = "patch"}}

RunEnded == pc = "done" /\ cfg = "ok" /\ jobs # <<>>

\* C1: the store holds at most one page per REQ ID, at all times and after any
\* number of runs, retried creates included.
C1_AtMostOnePagePerKey ==
    \A i, j \in 1..Len(store) :
        (i # j /\ store[i].key = store[j].key) => store[i].key = NoKey

\* C2: after a run in which every request succeeded, a run with the same source
\* records against the snapshot of the resulting store skips every record.
C2_Converged ==
    (RunEnded /\ ret = 0 /\ clean /\ failed = {} /\ snap = "page")
        => \A i \in 1..Len(jobs) :
              Decision(jobs[i], ParseResults(QueryPage(store))) = "skip"

\* C3: a source listing with two records of the same key makes the run fail:
\* no record is decided, no write request is sent, and main does not return 0.
C3_DuplicateKeysRejected ==
    HasDuplicateKeys(jobs) => (decided = <<>> /\ Writes = {} /\ ret # 0)

\* C4: when a run has gone through mark_removed_jobs, a stale-mark request has
\* been sent for every key of the snapshot that is not a source key.
C4_StaleComplete ==
    (pc = "done" /\ ret = 0)
        => \A i \in StaleEntries : StaleRequest(existing[i]) \in sent

C4_Witness ==
    /\ pc = "done" /\ ret = 0
    /\ Len(existing) = 2 /\ StaleEntries = {1, 2}
    /\ StaleRequest(existing[1]) \in failed
    /\ StaleRequest(existing[2]) \in sent
    /\ \E r \in failed : r.op = "create"

\* C5: every source key gets exactly one of the outcomes create, update, skip;
\* none is both created and updated; none that got an outcome is stale-marked.
C5_Coverage ==
    /\ \A i \in 1..Len(decided) : Cardinality(OutcomesOf(jobs[i].id)) = 1
    /\ \A i \in 1..Len(decided) : jobs[i].id \notin StaleMarkedKeys

\* C6: when the snapshot read has failed on every attempt, the run sends no
\* create, update or stale-mark request and decides nothing.
C6_SnapshotFailureAborts ==
    snap = "failed" => (Writes = {} /\ decided = <<>>)

\* C7: the snapshot taken from a query answer has an entry for every keyed page
\* of the store at the time of the read.
C7_SnapshotComplete ==
    (pc = "sync" /\ idx = 1 /\ snap = "page")
        => \A i \in 1..Len(store) :
              store[i].key # NoKey => store[i].key \in DictKeys(existing)

\* C8 (as stated): main returns 1 without any request exactly when a credential
\* or the database id is missing or the source yields nothing, and 0 otherwise.
C8_ExitCodeAsStated ==
    pc = "done"
        => IF cfg \in {"no_api_key", "no_database_id"} \/ (cfg = "ok" /\ jobs = <<>>)
           THEN ret = 1 /\ sent = {}
           ELSE ret = 0

\* C8 (amended): main returns 1 without any request exactly when a credential
\* or the database id is missing, the API key is a bytes literal, or the source
\* yields nothing; otherwise it returns 0, failed writes included.
C8_ExitCode ==
    pc = "done"
        => IF cfg # "ok" \/ jobs = <<>>
           THEN ret = 1 /\ sent = {}
           ELSE ret = 0

C8_Witness ==
    /\ pc = "done" /\ ret = 0
    /\ Len(jobs) = 2
    /\ \A i \in 1..Len(jobs) : decided[i] = "create" /\ CreateRequest(jobs[i]) \in failed
    /\ runs = 2

\* C9: a run in which an operation failed for good still ends normally, with
\* every source record handled, every decided create requested and every stale
\* key stale-marked.
C9_FailureIsolation ==
    (pc = "done" /\ failed # {})
        => /\ ret = 0
           /\ Len(decided) = Len(jobs)
           /\ \A i \in 1..Len(jobs) :
                 decided[i] = "create" => CreateRequest(jobs[i]) \in sent
           /\ mIdx = Len(existing) + 1
           /\ \A i \in StaleEntries : StaleRequest(existing[i]) \in sent

C9_Witness ==
    /\ pc = "done"
    /\ Len(jobs) = 2
    /\ CreateRequest(jobs[1]) \in failed
    /\ decided[2] = "create"
    /\ CreateRequest(jobs[2]) \notin failed
    /\ StaleEntries # {}
    /\ \E i \in 1..Len(store) : store[i].note = "stale"

Terminal == curl.status \in {"Succeeded", "Exhausted"}

CurlInv ==
    /\ curl.status \in {"Pending", "Retrying", "Succeeded", "Exhausted"}
    /\ curl.sends <= curl.N
    /\ curl.status = "Pending" => curl.sends = 0
    /\ curl.status = "Retrying" => (curl.sends = curl.fails /\ curl.sends >= 1)
    /\ curl.status = "Succeeded" => (curl.sends = curl.fails + 1 /\ Success(curl.out))
    /\ curl.status = "Exhausted" => (curl.sends = curl.N /\ curl.fails = curl.N)

CurlStep ==
    /\ ~Terminal
    /\ curl'.status \in {"Retrying", "Succeeded", "Exhausted"}
    /\ curl'.sends = curl.sends + 1
    /\ curl.req \in sent'

\* C10: a call with max_retries = N >= 1 goes Pending -> send -> Succeeded,
\* Retrying (-> send again) or Exhausted; it sends at most N requests, none
\* after a success, ends in exactly one of Succeeded and Exhausted, and is
\* Exhausted only after N failed sends.
C10_RequestStateMachine ==
    /\ [](curl.N >= 1 => CurlInv)
    /\ [][curl.N >= 1 => CurlStep]_vars
    /\ (curl.N >= 1) ~> Terminal

C10_Witness ==
    /\ curl.status = "Exhausted"
    /\ curl.N = DefaultMaxRetries
    /\ curl.fails = DefaultMaxRetries

\* C11: one destination write (a create_job_page call, or the pages_update
\* call of one stale record) sends at most MAX_RETRIES requests, whatever
\* layer retries them.
C11_WriteSendsBounded ==
    pc \in {"create", "marking"} => opSends <= MAX_RETRIES

\* The code defines no back-off cap.  The longest wait of a call with the
\* default max_retries stands for the finite cap of the claim.
BackoffCap == wait_time(DefaultMaxRetries - 1)

\* C12: the request of attempt 0 is preceded by no wait, and the request of
\* attempt i >= 1 by a wait of min(BackoffCap, 2^i), for every max_retries.
C12_BackoffCapped ==
    curl.sends >= 1
        => curl.wait = IF curl.sends = 1 THEN 0
                       ELSE Min(BackoffCap, wait_time(curl.sends - 1))

\* C13: when every one of the N >= 1 attempts has failed, the call ends with
\* the exception of the last attempt and returns no response.
C13_ExhaustionKeepsLastCause ==
    (curl.status = "Exhausted" /\ curl.N >= 1)
        => /\ curl.fails = curl.N
           /\ ~Success(curl.out)
           /\ curl.err = ErrOf(curl.out)

C13_Witness ==
    /\ curl.status = "Exhausted"
    /\ curl.N = DefaultMaxRetries
    /\ curl.out.kind = "reply" /\ curl.out.body = "badjson"
    /\ curl.err = "json"

\* the back-off intervals that precede attempts 1..k
RECURSIVE SumWaits(_)
SumWaits(k) == IF k = 0 THEN 0 ELSE SumWaits(k - 1) + wait_time(k)

\* C14: a call that returns after k failed attempts returns the answer of
\* attempt k + 1 <= max_retries, a successful one, and has by then waited at
\* least the sum of the back-off intervals before attempts 1..k.
C14_SuccessAfterFailures ==
    curl.status = "Succeeded"
        => /\ curl.sends = curl.fails + 1
           /\ curl.sends <= curl.N
           /\ Success(curl.out)
           /\ curl.slept >= SumWaits(curl.fails)

C14_Witness ==
    /\ curl.status = "Succeeded"
    /\ curl.req.op = "create"
    /\ curl.N = DefaultMaxRetries
    /\ curl.fails = 2
    /\ curl.slept = wait_time(1) + wait_time(2)

\* C15: after an attempt that was answered by an error object of a permanent
\* condition, the call sends no further request.
C15_PermanentErrorNotRetried ==
    [][curl.permanent => curl'.sends # curl.sends + 1]_vars

\* C16: an answer is returned to the caller only if the attempt had a 2xx
\* status and a body that parses and is no error object.
C16_SuccessOnly2xx ==
    curl.status = "Succeeded"
        => (curl.out.kind = "reply" /\ curl.out.http2xx /\ curl.out.body = "object")

UpdatedKeys == {jobs[n].id : n \in {m \in 1..Len(decided) : decided[m] = "update"}}

\* C18: the step that takes the update branch for a record sends nothing and
\* leaves the store as it is, and no later step of the run changes the remark
\* or the status of a page whose key was updated.
C18_UpdateFrame ==
    [][/\ (Len(decided') = Len(decided) + 1 /\ decided'[Len(decided')] = "update")
            => (store' = store /\ sent' = sent)
       /\ \A i \in 1..Len(store) :
            store[i].key \in UpdatedKeys
                => (store'[i].note = store[i].note
                    /\ store'[i].status = store[i].status)]_vars

C18_Witness ==
    /\ pc = "done" /\ ret = 0
    /\ \E i \in 1..Len(store) :
          /\ store[i].key \in UpdatedKeys
          /\ store[i].note = "stale"
          /\ store[i].status = "applied"

\* C19: no decision is taken and no write is sent before the snapshot read of
\* the run has ended; every create / update / skip decision is the one the
\* snapshot gives, every stale-mark names an entry of the snapshot; and once
\* taken the snapshot is not changed and the database is not queried again.
C19_SnapshotThenApply ==
    /\ [](/\ snap = "none" => (Writes = {} /\ decided = <<>>)
          /\ \A i \in 1..Len(decided) : decided[i] = Decision(jobs[i], existing)
          /\ \A r \in sent :
                r.op = "patch"
                    => \E i \in 1..Len(existing) : r = StaleRequest(existing[i]))
    /\ [][(snap # "none" /\ snap' # "none")
            => (existing' = existing /\ curl'.req.op # "query")]_vars

C19_Witness ==
    /\ pc = "done" /\ snap = "page"
    /\ \E i \in 1..Len(decided) :
          decided[i] = "create" /\ CreateRequest(jobs[i]) \in sent \ failed
    /\ \E r \in sent \ failed : r.op = "patch"
    /\ existing # ParseResults(QueryPage(store))

\* C20: a stale-mark request is sent only for a key that is absent from the
\* board listing of target-location postings of the run, detail fetch failed
\* or not.
C20_StaleOnlyIfUnlisted ==
    \A r \in sent : r.op = "patch" => r.key \notin listed

\* C21: a page without REQ ID is never an entry of the snapshot, no
\* stale-mark (the only request that names a page) is addressed to one, and
\* no step changes such a page in any way.
C21_UnkeyedUntouched ==
    /\ [](/\ \A i \in 1..Len(existing) :
                /\ existing[i].key # NoKey
                /\ store[existing[i].page_id].key # NoKey
          /\ \A r \in sent : r.op = "patch" => store[r.page].key # NoKey)
    /\ [][\A i \in 1..Len(store) :
            store[i].key = NoKey => store'[i] = store[i]]_vars

C21_Witness ==
    /\ pc = "done" /\ ret = 0 /\ runs = MaxRuns
    /\ snap = "page"
    /\ Len(store) = MaxStore
    /\ store[1] = Catalog[1]
    /\ store[2].note = "stale"
    /\ UpdatedKeys # {}

====
